---- MODULE Spec2Model ----
(***************************************************************************)
(* urblind: a screen magnifier.  The model follows main() and MonitorState *)
(* of the newest main.cpp (src/unnamed/part_001): monitor layout resolver, *)
(* command line handling, the one-shot capture and the frame loop.         *)
(* Native monitor indices are 0-based as in the code; the vectors are      *)
(* sequences, so element i of a vector v is v[i + 1] (operator At).        *)
(***************************************************************************)
EXTENDS Integers, Sequences, FiniteSets, TLC

\* ---------------------------------------------------------------- bounds
MaxMonitors == 2   \* GetMonitorCount() ranges over 0..MaxMonitors
MaxArgs == 2       \* argc - 1 ranges over 0..MaxArgs
Unit == 1000       \* float values are fixed-point numbers, in 1/Unit steps
MaxLayout == 3     \* displays of a layout of the resolver specification
MaxSide == 2       \* width and height of the display of the capture specification
MaxPattern == 2    \* pixels of the pattern that fills the root window
MaxTail == 2       \* free frames of a session of the camera specification
ZoomInNotches == 116   \* wheel-up frames that open a zoomed-in session
ZoomOutNotches == 47   \* wheel-down frames that open a zoomed-out session
MaxPointer == 3    \* frames of a session of the pointer specification

\* ------------------------------------------------------------- constants
INT_MAX == 2147483647

\* ---------------------------------------------------------- command line
\* An argument is the sequence of its characters.
Digits == {"0", "1", "2", "3", "4", "5", "6", "7", "8", "9"}

DigitValue(c) ==
  CASE c = "0" -> 0 [] c = "1" -> 1 [] c = "2" -> 2 [] c = "3" -> 3
    [] c = "4" -> 4 [] c = "5" -> 5 [] c = "6" -> 6 [] c = "7" -> 7
    [] c = "8" -> 8 [] c = "9" -> 9

ArgHelp == <<"-", "-", "h", "e", "l", "p">>
ArgDebug == <<"-", "-", "d", "e", "b", "u", "g">>
ArgDebugAnchor == <<"-", "-", "d", "e", "b", "u", "g", "-", "a", "n", "c", "h", "o", "r">>
ArgTooBig == <<"9", "9", "9", "9", "9", "9", "9", "9", "9", "9">>

\* The arguments the model feeds to main(): the three options, a word that
\* is an anchor value (and a non-numeric word where an index is expected),
\* indices that are valid or out of range depending on the monitor count,
\* and a digit string exceeding int.
ArgTokens ==
  { ArgHelp, ArgDebug, ArgDebugAnchor, <<"t", "r">>,
    <<"0">>, <<"1">>, <<"2">>, ArgTooBig }

RECURSIVE SeqsUpTo(_, _)
SeqsUpTo(S, n) ==
  IF n = 0 THEN { <<>> }
  ELSE LET shorter == SeqsUpTo(S, n - 1)
       IN  shorter \cup { Append(s, e) : s \in { t \in shorter : Len(t) = n - 1 }, e \in S }

\* !arg.empty() && std::all_of(arg.begin(), arg.end(), ::isdigit)
IsNumeric(arg) == Len(arg) > 0 /\ \A k \in 1..Len(arg) : arg[k] \in Digits

\* std::stoi on an all-digit string: the decimal value, or the out_of_range
\* exception when the value does not fit an int.
RECURSIVE StoiFrom(_, _, _)
StoiFrom(arg, k, acc) ==
  IF k > Len(arg) THEN [ok |-> TRUE, val |-> acc]
  ELSE LET d == DigitValue(arg[k])
       IN  IF acc > (INT_MAX - d) \div 10
           THEN [ok |-> FALSE, val |-> 0]
           ELSE StoiFrom(arg, k + 1, acc * 10 + d)

Stoi(arg) == StoiFrom(arg, 1, 0)

AnchorOf(arg) ==
  CASE arg = <<"t", "l">> -> "TOP_LEFT"
    [] arg = <<"t", "r">> -> "TOP_RIGHT"
    [] arg = <<"b", "l">> -> "BOTTOM_LEFT"
    [] arg = <<"b", "r">> -> "BOTTOM_RIGHT"
    [] OTHER -> "unset"

\* First pass over argv (i is the 1-based position in argv[1..]).  Returns
\* whether --help was met, and the debug settings parsed before it.
RECURSIVE FirstPass(_, _, _, _)
FirstPass(args, i, dbg, anchor) ==
  IF i > Len(args) THEN [help |-> FALSE, debug |-> dbg, anchor |-> anchor]
  ELSE IF args[i] = ArgDebug THEN FirstPass(args, i + 1, TRUE, anchor)
  ELSE IF args[i] = ArgDebugAnchor /\ i + 1 <= Len(args)
       THEN FirstPass(args, i + 2, dbg,
                      IF AnchorOf(args[i + 1]) = "unset" THEN anchor
                      ELSE AnchorOf(args[i + 1]))
  ELSE IF args[i] = ArgHelp THEN [help |-> TRUE, debug |-> dbg, anchor |-> anchor]
  ELSE FirstPass(args, i + 1, dbg, anchor)

\* Second pass: every all-digit argument overwrites selectedMonitor with
\* its value, or with -1 when std::stoi throws.
RECURSIVE SecondPass(_, _, _)
SecondPass(args, i, sel) ==
  IF i > Len(args) THEN sel
  ELSE IF IsNumeric(args[i])
       THEN SecondPass(args, i + 1,
                       IF Stoi(args[i]).ok THEN Stoi(args[i]).val ELSE -1)
       ELSE SecondPass(args, i + 1, sel)

\* ------------------------------------------------------------- monitors
At(v, i) == v[i + 1]

\* What one display reports: position (x, y) and resolution w x h.
Monitor(px, py, width, height) == [x |-> px, y |-> py, w |-> width, h |-> height]

Vec(a, b) == [x |-> a, y |-> b]

VARIABLES
  argv,                   \* argv[1..argc-1]
  monitors,               \* what the window system reports, by native index
  pendingInput,           \* what the user will do, one record per frame
  rootWindow,             \* what the screen shows: a pattern of BGRX pixels
  pc,                     \* position of main()
  spatialMonitorIndexes,  \* MonitorState fields
  resolutions,
  positions,
  totalWidth,
  totalHeight,
  mainMonitor,
  selectedMonitor,        \* locals of main()
  debugMode,
  debugAnchor,
  screenWidth,
  screenHeight,
  zoom,
  targetZoom,
  dragging,
  pan,
  targetPan,
  mousePosition,
  previousMousePosition,
  mouseOnTexture,
  source,
  dest,
  screenshot,
  texture,
  shouldClose,
  exitStatus,
  helpLines,              \* the "Monitor Layout:" listing printed by --help
  captureCalls,           \* history: calls of CaptureScreenX11
  frames,                 \* history: iterations of the frame loop
  textureUnloads,         \* history: calls of UnloadTexture
  imageUnloads,           \* history: calls of UnloadImage
  emptyBackRead           \* history: back() was called on an empty vector

monitorStateVars ==
  << spatialMonitorIndexes, resolutions, positions, totalWidth, totalHeight,
     mainMonitor >>

cameraVars ==
  << zoom, targetZoom, dragging, pan, targetPan, mousePosition,
     previousMousePosition, mouseOnTexture, source, dest >>

inputVars == << argv, monitors, pendingInput, rootWindow >>

historyVars == << captureCalls, frames, textureUnloads, imageUnloads, emptyBackRead >>

vars ==
  << inputVars, pc, monitorStateVars, selectedMonitor, debugMode, debugAnchor,
     screenWidth, screenHeight, cameraVars, screenshot, texture, shouldClose,
     exitStatus, helpLines, historyVars >>

GetMonitorCount == Len(monitors)

\* raylib answers 0 (and a zero vector) for a monitor index it does not know.
ValidMonitor(m) == m >= 0 /\ m < GetMonitorCount
GetMonitorWidth(m) == IF ValidMonitor(m) THEN At(monitors, m).w ELSE 0
GetMonitorHeight(m) == IF ValidMonitor(m) THEN At(monitors, m).h ELSE 0
GetMonitorPosition(m) ==
  IF ValidMonitor(m) THEN Vec(At(monitors, m).x, At(monitors, m).y) ELSE Vec(0, 0)

\* Mutant of SortOutcomes: the entries are ordered by x, but an index may
\* stand for several displays.
SortOutcomes_repeating(n) ==
  { order \in [1..n -> 0..(n - 1)] :
      \A i, j \in 1..n :
        i < j => GetMonitorPosition(order[i]).x <= GetMonitorPosition(order[j]).x }

\* ------------------------------------------------- MonitorState (resolver)
\* Mutant of SortOutcomes: the comparator is reversed (right to left).
SortOutcomes_descending(n) ==
  { order \in [1..n -> 0..(n - 1)] :
      /\ \A i, j \in 1..n : i # j => order[i] # order[j]
      /\ \A i, j \in 1..n :
           i < j => GetMonitorPosition(order[i]).x >= GetMonitorPosition(order[j]).x }

\* std::sort with the comparator a.second < b.second: the result is some
\* arrangement of the native indices in which no element is followed by one
\* with a smaller x.  std::sort is not a stable sort: the relative order of
\* elements with equal x is whatever the library's algorithm leaves.
SortOutcomes(n) ==
  { order \in [1..n -> 0..(n - 1)] :
      /\ \A i, j \in 1..n : i # j => order[i] # order[j]
      /\ \A i, j \in 1..n :
           i < j => GetMonitorPosition(order[i]).x <= GetMonitorPosition(order[j]).x }

\* Mutant of SumWidths: the loop stops one display short.
RECURSIVE SumWidths_short(_, _, _)
SumWidths_short(order, res, k) ==
  IF k >= Len(order) THEN 0
  ELSE At(res, order[k]).x + SumWidths_short(order, res, k + 1)

\* totalWidth += resolutions[index].x for every index of the order
RECURSIVE SumWidths(_, _, _)
SumWidths(order, res, k) ==
  IF k > Len(order) THEN 0
  ELSE At(res, order[k]).x + SumWidths(order, res, k + 1)

Max(a, b) == IF a >= b THEN a ELSE b
Min(a, b) == IF a <= b THEN a ELSE b

\* Mutant of HeightWalk: a display level with the lowest one so far (y equal
\* to maxY) is stacked as well.
RECURSIVE HeightWalk_nonstrict(_, _, _, _, _)
HeightWalk_nonstrict(order, res, k, total, maxY) ==
  IF k > Len(order) THEN total
  ELSE LET index == order[k]
           y == GetMonitorPosition(index).y
       IN  IF y >= maxY
           THEN HeightWalk_nonstrict(order, res, k + 1, total + At(res, index).y, y)
           ELSE HeightWalk_nonstrict(order, res, k + 1, Max(total, At(res, index).y), maxY)

\* The total height loop, from position k of the order on, with the running
\* total and maxY (which starts at 0).
RECURSIVE HeightWalk(_, _, _, _, _)
HeightWalk(order, res, k, total, maxY) ==
  IF k > Len(order) THEN total
  ELSE LET index == order[k]
           y == GetMonitorPosition(index).y
       IN  IF y > maxY
           THEN HeightWalk(order, res, k + 1, total + At(res, index).y, y)
           ELSE HeightWalk(order, res, k + 1, Max(total, At(res, index).y), maxY)

\* Mutant of Back: the first element instead of the last.
Back_front(v) == v[1]

\* std::vector::back() on a non-empty vector
Back(v) == v[Len(v)]

\* Mutant of getRealMonitorIndex: the spatial index is returned as if it
\* were the native index.
getRealMonitorIndex_identity(spatialIndex) ==
  IF spatialIndex < 0 \/ spatialIndex >= Len(spatialMonitorIndexes)
  THEN -1
  ELSE spatialIndex

\* Mutant of getRealMonitorIndex: the order is read from its right end.
getRealMonitorIndex_reversed(spatialIndex) ==
  IF spatialIndex < 0 \/ spatialIndex >= Len(spatialMonitorIndexes)
  THEN -1
  ELSE At(spatialMonitorIndexes, Len(spatialMonitorIndexes) - 1 - spatialIndex)

\* Mutant of getRealMonitorIndex: an invalid index is answered with 0, a
\* native index, instead of -1.
getRealMonitorIndex_zero(spatialIndex) ==
  IF spatialIndex < 0 \/ spatialIndex >= Len(spatialMonitorIndexes)
  THEN 0
  ELSE At(spatialMonitorIndexes, spatialIndex)

\* MonitorState::getRealMonitorIndex
getRealMonitorIndex(spatialIndex) ==
  IF spatialIndex < 0 \/ spatialIndex >= Len(spatialMonitorIndexes)
  THEN -1
  ELSE At(spatialMonitorIndexes, spatialIndex)

\* GetCurrentMonitor(): the display holding the (still hidden) window, which
\* the window system places.
GetCurrentMonitor == 0..(GetMonitorCount - 1)

\* The MonitorState constructor, run once by main().
RetrieveMonitorData ==
  /\ pc = "construct"
  /\ pc' = "flags"
  /\ LET monitorCount == GetMonitorCount
     IN  IF monitorCount = 0
         THEN UNCHANGED monitorStateVars
         ELSE \E order \in SortOutcomes(monitorCount) :
                LET res == [i \in 1..monitorCount |->
                              Vec(GetMonitorWidth(i - 1), GetMonitorHeight(i - 1))]
                IN  /\ resolutions' = res
                    /\ positions' = [i \in 1..monitorCount |-> GetMonitorPosition(i - 1)]
                    /\ spatialMonitorIndexes' = order
                    /\ totalWidth' = SumWidths(order, res, 1)
                    /\ totalHeight' = HeightWalk(order, res, 1, 0, 0)
                    /\ mainMonitor' \in GetCurrentMonitor
  /\ UNCHANGED << inputVars, selectedMonitor, debugMode, debugAnchor, screenWidth,
                  screenHeight, cameraVars, screenshot, texture, shouldClose,
                  exitStatus, helpLines, historyVars >>

\* ------------------------------------------------------ float arithmetic
\* zoom, pan and the rectangles are fixed-point numbers: the value v is the
\* integer v * Unit, and every product and quotient is rounded to the nearest
\* step.
Fix(n) == n * Unit
RoundDiv(a, b) == (2 * a + b) \div (2 * b)
FMul(a, b) == RoundDiv(a * b, Unit)
\* Mutant of FDiv: the operands are multiplied.
FDiv_times(a, b) == RoundDiv(a * b, Unit)

FDiv(a, b) == RoundDiv(a * Unit, b)

FVec(v) == Vec(Fix(v.x), Fix(v.y))

minZoom == Unit \div 10
maxZoom == 300 * Unit
zoomFactor == (105 * Unit) \div 100

\* 1.0f - exp(-smoothingFactor * deltaTime), smoothingFactor = 7.5f, for the
\* frame times (in milliseconds) the model uses: exp(0) is exactly 1, at
\* 16 ms the factor is 0.113, and from 2.4 s on exp() is below half an ulp
\* of 1.0f, so the float result is exactly 1.
\* Mutant of Smoothing: exp(-smoothingFactor * deltaTime) without the
\* subtraction from 1.
Smoothing_decay(dt) ==
  CASE dt = 0 -> Unit
    [] dt = 16 -> Unit - (113 * Unit) \div 1000
    [] dt = 3000 -> 0

Smoothing(dt) ==
  CASE dt = 0 -> 0
    [] dt = 16 -> (113 * Unit) \div 1000
    [] dt = 3000 -> Unit

FrameTimes == {0, 16, 3000}

\* Mutant of ClampAxis: the visible size is taken off the position instead
\* of off the upper limit.
ClampAxis_shifting(p, visible, textureSize) ==
  IF visible >= textureSize
  THEN RoundDiv(textureSize - visible, 2)
  ELSE Max(0, Min(p, textureSize) - visible)

ClampAxis(p, visible, textureSize) ==
  IF visible >= textureSize
  THEN RoundDiv(textureSize - visible, 2)
  ELSE Max(0, Min(p, textureSize - visible))

\* Mutant of ClampPan: the position is left as it is.
ClampPan_none(p, z, textureSize, screenSize) == p

ClampPan(p, z, textureSize, screenSize) ==
  Vec(ClampAxis(p.x, FDiv(screenSize.x, z), textureSize.x),
      ClampAxis(p.y, FDiv(screenSize.y, z), textureSize.y))

GetMousePositionOnTexture(mouseViewport, p, z) ==
  Vec(FDiv(mouseViewport.x, z) + p.x, FDiv(mouseViewport.y, z) + p.y)

\* Mutant of ComputeTargetPan: the ratio of the zoom levels is inverted.
ComputeTargetPan_inverted(onTexture, previousZoom, nextZoom, currentPan) ==
  Vec(onTexture.x - FMul(onTexture.x - currentPan.x, FDiv(nextZoom, previousZoom)),
      onTexture.y - FMul(onTexture.y - currentPan.y, FDiv(nextZoom, previousZoom)))

ComputeTargetPan(onTexture, previousZoom, nextZoom, currentPan) ==
  Vec(onTexture.x - FMul(onTexture.x - currentPan.x, FDiv(previousZoom, nextZoom)),
      onTexture.y - FMul(onTexture.y - currentPan.y, FDiv(previousZoom, nextZoom)))

\* Mutant of SourceRect: the viewport size is not divided by the zoom.
SourceRect_unzoomed(p, z, width, height) ==
  [x |-> p.x, y |-> p.y, width |-> Fix(width), height |-> Fix(height)]

SourceRect(p, z, width, height) ==
  [x |-> p.x, y |-> p.y, width |-> FDiv(Fix(width), z), height |-> FDiv(Fix(height), z)]

DestRect(width, height) ==
  [x |-> 0, y |-> 0, width |-> Fix(width), height |-> Fix(height)]

\* ------------------------------------------------------------------ main
\* Image {0}: a null data pointer.  An image with data holds its bytes.
NullImage == [null |-> TRUE, data |-> << >>, width |-> 0, height |-> 0]
NoTexture == [id |-> 0, width |-> 0, height |-> 0]

\* The status the parent process sees when main() returns ret.
ExitStatus(ret) == ret % 256

\* The "Monitor Layout:" lines of --help: one per spatial slot i.
HelpListing ==
  [i \in 1..Len(spatialMonitorIndexes) |->
     LET index == spatialMonitorIndexes[i]
     IN  [index |-> index,
          resolution |-> At(resolutions, index),
          position |-> positions[i]]]

\* First pass over the arguments: --debug, --debug-anchor and --help.
ParseFlags ==
  /\ pc = "flags"
  /\ LET parsed == FirstPass(argv, 1, FALSE, "unset")
     IN  /\ debugMode' = parsed.debug
         /\ debugAnchor' = parsed.anchor
         /\ IF parsed.help
            THEN /\ helpLines' = HelpListing
                 /\ exitStatus' = ExitStatus(0)
                 /\ pc' = "exited"
            ELSE /\ pc' = "index"
                 /\ UNCHANGED << helpLines, exitStatus >>
  /\ UNCHANGED << inputVars, monitorStateVars, selectedMonitor, screenWidth,
                  screenHeight, cameraVars, screenshot, texture, shouldClose,
                  historyVars >>

\* Second pass over the arguments: the numeric monitor index.
ParseMonitorIndex ==
  /\ pc = "index"
  /\ selectedMonitor' = SecondPass(argv, 1, selectedMonitor)
  /\ pc' = "select"
  /\ UNCHANGED << inputVars, monitorStateVars, debugMode, debugAnchor, screenWidth,
                  screenHeight, cameraVars, screenshot, texture, shouldClose,
                  exitStatus, helpLines, historyVars >>

\* What spatialMonitorIndexes.back() may leave in selectedMonitor when the
\* vector is empty (undefined behaviour): any int.
GarbageInts == {-1, 0, 7}

\* The window size and the initial pan, once the monitor sel is chosen.
UseMonitor(sel) ==
  /\ selectedMonitor' = sel
  /\ screenWidth' = GetMonitorWidth(sel)
  /\ screenHeight' = GetMonitorHeight(sel)
  /\ pan' = FVec(GetMonitorPosition(sel))
  /\ targetPan' = FVec(GetMonitorPosition(sel))
  /\ source' = SourceRect(FVec(GetMonitorPosition(sel)), zoom,
                          GetMonitorWidth(sel), GetMonitorHeight(sel))
  /\ dest' = DestRect(GetMonitorWidth(sel), GetMonitorHeight(sel))
  /\ pc' = "capture"

\* From "Default to the rightmost monitor" to the rectangles before capture.
SelectMonitor ==
  /\ pc = "select"
  /\ IF selectedMonitor # -1
     THEN IF getRealMonitorIndex(selectedMonitor) # -1
          THEN UseMonitor(getRealMonitorIndex(selectedMonitor)) /\ UNCHANGED emptyBackRead
          ELSE IF Len(spatialMonitorIndexes) > 0
               THEN /\ UseMonitor(Back(spatialMonitorIndexes))
                    /\ UNCHANGED emptyBackRead
               ELSE /\ emptyBackRead' = TRUE
                    /\ \/ \E garbage \in GarbageInts : UseMonitor(garbage)
                       \/ /\ pc' = "crashed"
                          /\ UNCHANGED << selectedMonitor, screenWidth, screenHeight,
                                          pan, targetPan, source, dest >>
     ELSE UseMonitor(selectedMonitor) /\ UNCHANGED emptyBackRead
  /\ UNCHANGED << inputVars, monitorStateVars, debugMode, debugAnchor, zoom, targetZoom,
                  dragging, mousePosition, previousMousePosition, mouseOnTexture,
                  screenshot, texture, shouldClose, exitStatus, helpLines,
                  captureCalls, frames, textureUnloads, imageUnloads >>

\* What XOpenDisplay and XGetImage may answer.
CaptureOutcomes == {"no_display", "no_image", "image"}

\* The bytes of the XImage of a width x height grab of the root window, four
\* per pixel in the order blue, green, red, padding, rows without padding:
\* pixel k shows the pattern's pixel k modulo its length.
XImageData(width, height) ==
  [o \in 1..(4 * width * height) |->
     rootWindow[(((o - 1) \div 4) % Len(rootWindow)) + 1][((o - 1) % 4) + 1]]

\* Mutant of ConvertFrom: the channels are copied in the order they come.
RECURSIVE ConvertFrom_unswapped(_, _, _)
ConvertFrom_unswapped(data, i, count) ==
  IF i >= count THEN << >>
  ELSE << data[4 * i + 0 + 1], data[4 * i + 1 + 1], data[4 * i + 2 + 1], 255 >>
         \o ConvertFrom_unswapped(data, i + 1, count)

\* The conversion loop, from pixel i on: rgbaData[4i..4i+3] for every
\* i < count.
RECURSIVE ConvertFrom(_, _, _)
ConvertFrom(data, i, count) ==
  IF i >= count THEN << >>
  ELSE << data[4 * i + 2 + 1], data[4 * i + 1 + 1], data[4 * i + 0 + 1], 255 >>
         \o ConvertFrom(data, i + 1, count)

\* CaptureScreenX11(x, y, width, height): no image when the display cannot
\* be opened or XGetImage returns none, otherwise the converted image.
CaptureScreenX11(outcome, width, height) ==
  IF outcome = "image"
  THEN [null |-> FALSE,
        data |-> ConvertFrom(XImageData(width, height), 0, width * height),
        width |-> width, height |-> height]
  ELSE NullImage

\* Mutant of CaptureFailed: the result of the capture is not checked.
CaptureFailed_unchecked(image) == FALSE

\* screenshot.data == nullptr
CaptureFailed(image) == image.null

\* The capture and the check of its result.
Capture ==
  /\ pc = "capture"
  /\ \E outcome \in CaptureOutcomes :
       LET image == CaptureScreenX11(outcome, totalWidth, totalHeight)
       IN  /\ screenshot' = image
           /\ captureCalls' = captureCalls + 1
           /\ IF CaptureFailed(image)
              THEN /\ exitStatus' = ExitStatus(-1)
                   /\ pc' = "exited"
              ELSE /\ pc' = "texture"
                   /\ UNCHANGED exitStatus
  /\ UNCHANGED << inputVars, monitorStateVars, selectedMonitor, debugMode, debugAnchor,
                  screenWidth, screenHeight, cameraVars, texture, shouldClose,
                  helpLines, frames, textureUnloads, imageUnloads, emptyBackRead >>

LoadTexture ==
  /\ pc = "texture"
  /\ texture' = [id |-> 1, width |-> screenshot.width, height |-> screenshot.height]
  /\ shouldClose' = FALSE
  /\ pc' = "loop"
  /\ UNCHANGED << inputVars, monitorStateVars, selectedMonitor, debugMode, debugAnchor,
                  screenWidth, screenHeight, cameraVars, screenshot, exitStatus,
                  helpLines, historyVars >>

\* One frame's input: the keys and buttons reported for the frame, the
\* pointer position in window pixels, the wheel movement and the frame time
\* in milliseconds.
FrameInput(esc, press, release, mouse, wheel, dt) ==
  [esc |-> esc, press |-> press, release |-> release, mouse |-> mouse,
   wheel |-> wheel, dt |-> dt]

\* Mutant of Clamp: the upper limit is not applied.
Clamp_lower(v, lo, hi) == Max(lo, v)

\* Mutant of Clamp: the lower limit is not applied.
Clamp_upper(v, lo, hi) == Min(v, hi)

\* std::max(lo, std::min(v, hi))
Clamp(v, lo, hi) == Max(lo, Min(v, hi))

\* Mutant of FrameStep: the release is handled before the press, so a press
\* and a release in one frame leave the flag set.
FrameStep_releaseFirst(in) ==
  LET mouse == FVec(in.mouse)
      pressedPrevious == IF in.press THEN mouse ELSE previousMousePosition
      isDragging == in.press \/ (dragging /\ ~in.release)
      draggedPan ==
        IF isDragging
        THEN Vec(targetPan.x - FDiv(mouse.x - pressedPrevious.x, zoom),
                 targetPan.y - FDiv(mouse.y - pressedPrevious.y, zoom))
        ELSE targetPan
      previousZoom == zoom
      onTexture == GetMousePositionOnTexture(mouse, pan, zoom)
      steppedZoom ==
        IF in.wheel > 0 THEN FMul(targetZoom, zoomFactor) ELSE FDiv(targetZoom, zoomFactor)
      nextTargetZoom ==
        IF in.wheel # 0 THEN Clamp(steppedZoom, minZoom, maxZoom) ELSE targetZoom
      nextTargetPan ==
        IF in.wheel # 0
        THEN ComputeTargetPan(onTexture, previousZoom, nextTargetZoom, pan)
        ELSE draggedPan
      smoothing == Smoothing(in.dt)
      nextZoom == zoom + FMul(nextTargetZoom - zoom, smoothing)
      smoothedPan == Vec(pan.x + FMul(nextTargetPan.x - pan.x, smoothing),
                         pan.y + FMul(nextTargetPan.y - pan.y, smoothing))
      nextPan == ClampPan(smoothedPan, nextZoom,
                          Vec(Fix(texture.width), Fix(texture.height)),
                          Vec(Fix(screenWidth), Fix(screenHeight)))
  IN  /\ shouldClose' = in.esc
      /\ dragging' = isDragging
      /\ previousMousePosition' = IF isDragging THEN mouse ELSE pressedPrevious
      /\ mousePosition' = mouse
      /\ mouseOnTexture' = onTexture
      /\ targetZoom' = nextTargetZoom
      /\ targetPan' = nextTargetPan
      /\ zoom' = nextZoom
      /\ pan' = nextPan
      /\ source' = SourceRect(nextPan, nextZoom, screenWidth, screenHeight)
      /\ dest' = DestRect(screenWidth, screenHeight)

\* Mutant of FrameStep: the pointer movement is applied to targetPan whether
\* the drag flag is set or not.
FrameStep_pointerBound(in) ==
  LET mouse == FVec(in.mouse)
      pressedPrevious == IF in.press THEN mouse ELSE previousMousePosition
      isDragging == (in.press \/ dragging) /\ ~in.release
      draggedPan ==
        IF TRUE
        THEN Vec(targetPan.x - FDiv(mouse.x - pressedPrevious.x, zoom),
                 targetPan.y - FDiv(mouse.y - pressedPrevious.y, zoom))
        ELSE targetPan
      previousZoom == zoom
      onTexture == GetMousePositionOnTexture(mouse, pan, zoom)
      steppedZoom ==
        IF in.wheel > 0 THEN FMul(targetZoom, zoomFactor) ELSE FDiv(targetZoom, zoomFactor)
      nextTargetZoom ==
        IF in.wheel # 0 THEN Clamp(steppedZoom, minZoom, maxZoom) ELSE targetZoom
      nextTargetPan ==
        IF in.wheel # 0
        THEN ComputeTargetPan(onTexture, previousZoom, nextTargetZoom, pan)
        ELSE draggedPan
      smoothing == Smoothing(in.dt)
      nextZoom == zoom + FMul(nextTargetZoom - zoom, smoothing)
      smoothedPan == Vec(pan.x + FMul(nextTargetPan.x - pan.x, smoothing),
                         pan.y + FMul(nextTargetPan.y - pan.y, smoothing))
      nextPan == ClampPan(smoothedPan, nextZoom,
                          Vec(Fix(texture.width), Fix(texture.height)),
                          Vec(Fix(screenWidth), Fix(screenHeight)))
  IN  /\ shouldClose' = in.esc
      /\ dragging' = isDragging
      /\ previousMousePosition' = IF isDragging THEN mouse ELSE pressedPrevious
      /\ mousePosition' = mouse
      /\ mouseOnTexture' = onTexture
      /\ targetZoom' = nextTargetZoom
      /\ targetPan' = nextTargetPan
      /\ zoom' = nextZoom
      /\ pan' = nextPan
      /\ source' = SourceRect(nextPan, nextZoom, screenWidth, screenHeight)
      /\ dest' = DestRect(screenWidth, screenHeight)

\* The body of the frame loop with the input in.
FrameStep(in) ==
  LET mouse == FVec(in.mouse)
      pressedPrevious == IF in.press THEN mouse ELSE previousMousePosition
      isDragging == (in.press \/ dragging) /\ ~in.release
      draggedPan ==
        IF isDragging
        THEN Vec(targetPan.x - FDiv(mouse.x - pressedPrevious.x, zoom),
                 targetPan.y - FDiv(mouse.y - pressedPrevious.y, zoom))
        ELSE targetPan
      previousZoom == zoom
      onTexture == GetMousePositionOnTexture(mouse, pan, zoom)
      steppedZoom ==
        IF in.wheel > 0 THEN FMul(targetZoom, zoomFactor) ELSE FDiv(targetZoom, zoomFactor)
      nextTargetZoom ==
        IF in.wheel # 0 THEN Clamp(steppedZoom, minZoom, maxZoom) ELSE targetZoom
      nextTargetPan ==
        IF in.wheel # 0
        THEN ComputeTargetPan(onTexture, previousZoom, nextTargetZoom, pan)
        ELSE draggedPan
      smoothing == Smoothing(in.dt)
      nextZoom == zoom + FMul(nextTargetZoom - zoom, smoothing)
      smoothedPan == Vec(pan.x + FMul(nextTargetPan.x - pan.x, smoothing),
                         pan.y + FMul(nextTargetPan.y - pan.y, smoothing))
      nextPan == ClampPan(smoothedPan, nextZoom,
                          Vec(Fix(texture.width), Fix(texture.height)),
                          Vec(Fix(screenWidth), Fix(screenHeight)))
  IN  /\ shouldClose' = in.esc
      /\ dragging' = isDragging
      /\ previousMousePosition' = IF isDragging THEN mouse ELSE pressedPrevious
      /\ mousePosition' = mouse
      /\ mouseOnTexture' = onTexture
      /\ targetZoom' = nextTargetZoom
      /\ targetPan' = nextTargetPan
      /\ zoom' = nextZoom
      /\ pan' = nextPan
      /\ source' = SourceRect(nextPan, nextZoom, screenWidth, screenHeight)
      /\ dest' = DestRect(screenWidth, screenHeight)

\* Mutant of Frame: the screen is captured again in every frame.
Frame_recapturing ==
  /\ pc = "loop"
  /\ ~shouldClose
  /\ pendingInput # << >>
  /\ FrameStep(Head(pendingInput))
  /\ pendingInput' = Tail(pendingInput)
  /\ frames' = frames + 1
  /\ captureCalls' = captureCalls + 1
  /\ UNCHANGED << argv, monitors, rootWindow, pc, monitorStateVars, selectedMonitor, debugMode,
                  debugAnchor, screenWidth, screenHeight, screenshot, texture,
                  exitStatus, helpLines, textureUnloads, imageUnloads,
                  emptyBackRead >>

Frame ==
  /\ pc = "loop"
  /\ ~shouldClose
  /\ pendingInput # << >>
  /\ FrameStep(Head(pendingInput))
  /\ pendingInput' = Tail(pendingInput)
  /\ frames' = frames + 1
  /\ UNCHANGED << argv, monitors, rootWindow, pc, monitorStateVars, selectedMonitor, debugMode,
                  debugAnchor, screenWidth, screenHeight, screenshot, texture,
                  exitStatus, helpLines, captureCalls, textureUnloads, imageUnloads,
                  emptyBackRead >>

\* Mutant of Shutdown: the captured image is not released.
Shutdown_leaking ==
  /\ pc = "loop"
  /\ shouldClose
  /\ textureUnloads' = textureUnloads + 1
  /\ exitStatus' = ExitStatus(0)
  /\ pc' = "exited"
  /\ UNCHANGED << inputVars, monitorStateVars, selectedMonitor, debugMode, debugAnchor,
                  screenWidth, screenHeight, cameraVars, screenshot, texture,
                  shouldClose, helpLines, captureCalls, frames, imageUnloads,
                  emptyBackRead >>

\* The loop ends; UnloadTexture, UnloadImage, CloseWindow, return 0.  Both
\* unload calls take their argument by value: main's texture and screenshot
\* keep their fields.
Shutdown ==
  /\ pc = "loop"
  /\ shouldClose
  /\ textureUnloads' = textureUnloads + 1
  /\ imageUnloads' = imageUnloads + 1
  /\ exitStatus' = ExitStatus(0)
  /\ pc' = "exited"
  /\ UNCHANGED << inputVars, monitorStateVars, selectedMonitor, debugMode, debugAnchor,
                  screenWidth, screenHeight, cameraVars, screenshot, texture,
                  shouldClose, helpLines, captureCalls, frames, emptyBackRead >>

\* --------------------------------------------------------- specification
\* The displays a run may find: a display at the origin, one to its right,
\* one to its left and lower, and one below the first (same x, other size).
MonitorChoices ==
  { Monitor(0, 0, 1, 1), Monitor(1, 0, 2, 1), Monitor(-1, 1, 1, 2), Monitor(0, 1, 2, 2) }

MonitorLayouts == SeqsUpTo(MonitorChoices, MaxMonitors)

CommandLines == SeqsUpTo(ArgTokens, MaxArgs)

\* The session of the startup specification: a frame that presses the
\* button and turns the wheel at pixel (1, 1), then a frame with Escape.
StartupSession ==
  << FrameInput(FALSE, TRUE, FALSE, Vec(1, 1), 1, 16),
     FrameInput(TRUE, FALSE, FALSE, Vec(1, 1), 0, 16) >>

\* main() before the MonitorState constructor runs.
InitMain ==
  /\ pc = "construct"
  /\ spatialMonitorIndexes = << >>
  /\ resolutions = << >>
  /\ positions = << >>
  /\ totalWidth = 0
  /\ totalHeight = 0
  /\ mainMonitor = 0
  /\ selectedMonitor = -1
  /\ debugMode = FALSE
  /\ debugAnchor = "unset"
  /\ screenWidth = 640
  /\ screenHeight = 480
  /\ zoom = Fix(1)
  /\ targetZoom = Fix(1)
  /\ dragging = FALSE
  /\ pan = Vec(0, 0)
  /\ targetPan = Vec(0, 0)
  /\ mousePosition = Vec(0, 0)
  /\ previousMousePosition = Vec(0, 0)
  /\ mouseOnTexture = Vec(0, 0)
  /\ source = [x |-> 0, y |-> 0, width |-> 0, height |-> 0]
  /\ dest = [x |-> 0, y |-> 0, width |-> 0, height |-> 0]
  /\ screenshot = NullImage
  /\ texture = NoTexture
  /\ shouldClose = FALSE
  /\ exitStatus = -1
  /\ helpLines = << >>
  /\ captureCalls = 0
  /\ frames = 0
  /\ textureUnloads = 0
  /\ imageUnloads = 0
  /\ emptyBackRead = FALSE

\* The screen content of the startup specification: two pixels, repeated.
StartupScreen == << << 11, 48, 85, 122 >>, << 159, 196, 233, 14 >> >>

Init ==
  /\ argv \in CommandLines
  /\ monitors \in MonitorLayouts
  /\ pendingInput = StartupSession
  /\ rootWindow = StartupScreen
  /\ InitMain

Next ==
  \/ RetrieveMonitorData
  \/ ParseFlags
  \/ ParseMonitorIndex
  \/ SelectMonitor
  \/ Capture
  \/ LoadTexture
  \/ Frame
  \/ Shutdown

Spec == Init /\ [][Next]_vars

\* The resolver on its own, on layouts of real displays: a 1920x1080 display
\* at the origin, a larger one to its right, one to its left, one below the
\* first and one above it (X and GLFW report a display above or left of the
\* primary one with negative coordinates).
ResolverChoices ==
  { Monitor(0, 0, 1920, 1080), Monitor(1920, 0, 2560, 1440),
    Monitor(-1920, 0, 1920, 1080), Monitor(0, 1080, 1920, 1200),
    Monitor(0, -1080, 1920, 1080) }

InitLayout ==
  /\ argv = << >>
  /\ monitors \in SeqsUpTo(ResolverChoices, MaxLayout)
  /\ pendingInput = << >>
  /\ rootWindow = StartupScreen
  /\ InitMain

NextLayout == RetrieveMonitorData

SpecLayout == InitLayout /\ [][NextLayout]_vars

\* The capture on its own: no display or one display of up to MaxSide x
\* MaxSide pixels, a screen filled with a pattern of pixels (B, G, R, X) that
\* are red, blue-green with the padding set, grey and four distinct bytes.
PixelChoices ==
  { << 0, 0, 255, 0 >>, << 255, 128, 0, 255 >>, << 7, 7, 7, 9 >>, << 1, 2, 3, 4 >> }

InitCapture ==
  /\ argv \in { << >>, << << "0" >> >> }
  /\ monitors \in { << >> }
       \cup { << Monitor(0, 0, width, height) >> : width \in 1..MaxSide, height \in 1..MaxSide }
  /\ pendingInput = StartupSession
  /\ rootWindow \in SeqsUpTo(PixelChoices, MaxPattern) \ { << >> }
  /\ InitMain

SpecCapture == InitCapture /\ [][Next]_vars

\* The camera: a 2x3 display to the right of a 4x3 one (a bitmap of 6x3
\* pixels), chosen by its spatial index 1, and sessions made of an opening
\* run of wheel frames, up to MaxTail free frames and a closing Escape.
CameraLayout == << Monitor(0, 0, 4, 3), Monitor(4, 0, 2, 3) >>

Idle(at, dt) == FrameInput(FALSE, FALSE, FALSE, at, 0, dt)
Wheel(at, notch, dt) == FrameInput(FALSE, FALSE, FALSE, at, notch, dt)
Press(at, dt) == FrameInput(FALSE, TRUE, FALSE, at, 0, dt)
Release(at, dt) == FrameInput(FALSE, FALSE, TRUE, at, 0, dt)
Escape == FrameInput(TRUE, FALSE, FALSE, Vec(0, 0), 0, 16)

Repeat(in, count) == [i \in 1..count |-> in]

\* No opening run, or a run of long frames that brings the zoom one notch
\* below maxZoom, or to the last notch above minZoom.
Openings ==
  { << >>,
    Repeat(Wheel(Vec(1, 2), 1, 3000), ZoomInNotches),
    Repeat(Wheel(Vec(1, 2), -1, 3000), ZoomOutNotches) }

\* The free frames: the pointer rests at (1, 2) or (0, 0) for no time, a
\* 60 Hz frame or a long frame; the wheel turns either way; the button goes
\* down at either point, and up.
FreeFrames ==
  { Idle(Vec(1, 2), 0), Idle(Vec(1, 2), 16), Idle(Vec(1, 2), 3000), Idle(Vec(0, 0), 3000),
    Wheel(Vec(1, 2), 1, 16), Wheel(Vec(1, 2), 1, 3000),
    Wheel(Vec(1, 2), -1, 16), Wheel(Vec(0, 0), -1, 3000),
    Press(Vec(0, 0), 16), Press(Vec(1, 2), 16), Release(Vec(1, 2), 16) }

CameraSessions ==
  { opening \o free \o << Escape >> :
      opening \in Openings, free \in SeqsUpTo(FreeFrames, MaxTail) }

InitCamera ==
  /\ argv = << << "1" >> >>
  /\ monitors = CameraLayout
  /\ pendingInput \in CameraSessions
  /\ rootWindow = StartupScreen
  /\ InitMain

SpecCamera == InitCamera /\ [][Next]_vars

\* The pointer: the same displays, and sessions of up to MaxPointer frames
\* near zoom 1, closed by Escape or left without an exit request.  Beside
\* frames of the camera sessions there are a wheel notch in a frame of no
\* duration, a press and a release reported in the same frame, and an
\* Escape that comes with a wheel notch (possibly before the session's end).
PointerFrames ==
  { Idle(Vec(1, 2), 0), Idle(Vec(1, 2), 16), Idle(Vec(1, 2), 3000), Idle(Vec(0, 0), 3000),
    Wheel(Vec(1, 2), 1, 16), Wheel(Vec(0, 0), -1, 0), Wheel(Vec(1, 2), -1, 3000),
    Press(Vec(0, 0), 16), Press(Vec(1, 2), 16), Release(Vec(1, 2), 16),
    FrameInput(FALSE, TRUE, TRUE, Vec(0, 0), 0, 16),
    FrameInput(TRUE, FALSE, FALSE, Vec(1, 2), 1, 16) }

PointerSessions ==
  { frameInputs \o closing :
      frameInputs \in SeqsUpTo(PointerFrames, MaxPointer),
      closing \in { << >>, << Escape >> } }

InitPointer ==
  /\ argv = << << "1" >> >>
  /\ monitors = CameraLayout
  /\ pendingInput \in PointerSessions
  /\ rootWindow = StartupScreen
  /\ InitMain

SpecPointer == InitPointer /\ [][Next]_vars

\* Sessions in which the exit key comes at any point, with input before and
\* after it.
ExitFrames ==
  { Idle(Vec(1, 2), 16), Wheel(Vec(1, 2), 1, 16), Press(Vec(0, 0), 16),
    Release(Vec(1, 2), 16),
    FrameInput(TRUE, FALSE, FALSE, Vec(1, 2), 1, 16) }

ExitSessions ==
  { frameInputs \o closing :
      frameInputs \in SeqsUpTo(ExitFrames, MaxPointer),
      closing \in { << >>, << Escape >> } }

InitExit ==
  /\ argv = << << "1" >> >>
  /\ monitors = CameraLayout
  /\ pendingInput \in ExitSessions
  /\ rootWindow = StartupScreen
  /\ InitMain

\* main() is a sequential program that keeps running: a step that can be
\* taken is taken.
SpecExit == InitExit /\ [][Next]_vars /\ WF_vars(Next)

\* ================================================================ claims
\* What the command line asks for, read off argv alone.
HelpOnCommandLine == \E k \in 1..Len(argv) : argv[k] = ArgHelp

RECURSIVE OnlyDebugOptionsFrom(_)
OnlyDebugOptionsFrom(k) ==
  \/ k > Len(argv)
  \/ argv[k] = ArgDebug /\ OnlyDebugOptionsFrom(k + 1)
  \/ /\ argv[k] = ArgDebugAnchor
     /\ k + 1 <= Len(argv)
     /\ AnchorOf(argv[k + 1]) # "unset"
     /\ OnlyDebugOptionsFrom(k + 2)

\* No argument at all, or only --debug and --debug-anchor <anchor> options.
NoPositionalIndex == OnlyDebugOptionsFrom(1)

NumericPositions == { k \in 1..Len(argv) : IsNumeric(argv[k]) }

\* The last all-digit argument (the one the second pass ends with).
LastNumeric == argv[CHOOSE k \in NumericPositions : \A j \in NumericPositions : j <= k]

\* The positional integer i of the command line, when it has one that fits int.
HasPositionalInteger == NumericPositions # {} /\ Stoi(LastNumeric).ok
PositionalInteger == Stoi(LastNumeric).val

\* The argument standing for the monitor index is malformed: the only words
\* beside the debug options are non-numeric, or the last all-digit word does
\* not fit an int.
MalformedIndex ==
  \/ NumericPositions # {} /\ ~Stoi(LastNumeric).ok
  \/ NumericPositions = {} /\ ~NoPositionalIndex

DisplayCount == Len(monitors)
Rightmost == spatialMonitorIndexes[Len(spatialMonitorIndexes)]

AfterSelect == pc \in {"capture", "texture", "loop", "exited"} /\ ~HelpOnCommandLine

\* The display with native index m is the one the window and the camera use.
UsesDisplay(m) ==
  /\ selectedMonitor = m
  /\ screenWidth = At(monitors, m).w
  /\ screenHeight = At(monitors, m).h
  /\ pc = "capture" =>
       /\ pan = Vec(Fix(At(monitors, m).x), Fix(At(monitors, m).y))
       /\ targetPan = pan
       /\ source.width = Fix(At(monitors, m).w)
       /\ source.height = Fix(At(monitors, m).h)

\* C1: with no positional monitor index on the command line, the display
\* used for the window size, the window position and the initial pan is the
\* rightmost one, the last entry of the spatial order.
C1_DefaultIsRightmost ==
  (NoPositionalIndex /\ DisplayCount >= 1 /\ AfterSelect) => UsesDisplay(Rightmost)

\* C2: a positional integer that is >= the number of displays does not abort
\* startup: the rightmost display is substituted and the capture and the
\* camera run with it.
C2_OutOfRangeFallsBack ==
  (HasPositionalInteger /\ PositionalInteger >= DisplayCount /\ DisplayCount >= 1
     /\ ~HelpOnCommandLine /\ pc \notin {"construct", "flags", "index", "select"})
  => /\ pc \in {"capture", "texture", "loop", "exited"}
     /\ UsesDisplay(Rightmost)
     /\ pc = "exited" => captureCalls = 1
     /\ ~emptyBackRead

C2_Witness ==
  /\ pc = "loop" /\ frames >= 1
  /\ HasPositionalInteger /\ PositionalInteger >= DisplayCount
  /\ DisplayCount >= 2
  /\ Rightmost # DisplayCount - 1
  /\ selectedMonitor = Rightmost

\* C3: a non-numeric or unparseable argument where the index is expected is
\* recovered like an out-of-range index: the rightmost display is used, and
\* no malformed value reaches the display queries, the capture or the camera.
C3_MalformedFallsBack ==
  (MalformedIndex /\ DisplayCount >= 1 /\ AfterSelect) => UsesDisplay(Rightmost)

\* C4: a positional integer i with 0 <= i < number of displays selects the
\* i-th entry of the left-to-right order, and that display's resolution and
\* position give the viewport size and the initial pan.
C4_ValidIndexIsSpatial ==
  (HasPositionalInteger /\ PositionalInteger < DisplayCount /\ AfterSelect)
  => UsesDisplay(At(spatialMonitorIndexes, PositionalInteger))

C4_Witness ==
  /\ pc = "capture"
  /\ HasPositionalInteger /\ PositionalInteger < DisplayCount
  /\ At(spatialMonitorIndexes, PositionalInteger) # PositionalInteger
  /\ selectedMonitor = At(spatialMonitorIndexes, PositionalInteger)
  /\ pan # Vec(0, 0)

\* C5: when --help appears on the command line, whatever the other
\* arguments, the program prints the layout and exits with status 0; the
\* capture is never called and no frame runs.
C5_HelpAlwaysExits ==
  HelpOnCommandLine =>
    /\ pc \in {"construct", "flags", "exited"}
    /\ captureCalls = 0
    /\ frames = 0
    /\ pc = "exited" => (exitStatus = 0 /\ helpLines = HelpListing)

\* C6: with zero displays the layout is empty and the process exits after
\* the diagnostic: no element of the empty order is read, the capture is not
\* attempted and the frame loop is never entered.
C6_NoDisplaysExits ==
  DisplayCount = 0 =>
    /\ spatialMonitorIndexes = << >> /\ totalWidth = 0 /\ totalHeight = 0
    /\ ~emptyBackRead
    /\ captureCalls = 0
    /\ frames = 0
    /\ pc \in {"construct", "flags", "exited"}

\* C7: when the capture fails, CaptureScreenX11 has returned an image with
\* null data and the process ends with a nonzero status: no texture is
\* created and no frame runs.
C7_CaptureFailureAborts ==
  (captureCalls >= 1 /\ screenshot.null) =>
    /\ pc = "exited"
    /\ exitStatus # 0
    /\ texture = NoTexture
    /\ frames = 0
    /\ textureUnloads = 0

C7_Witness ==
  /\ captureCalls = 1 /\ screenshot.null
  /\ pc = "exited" /\ exitStatus = 255
  /\ DisplayCount >= 1

\* C8: the capture is called at most once in a run; a run that reaches the
\* frame loop has called it exactly once, with success, before the first
\* frame, and does not call it again during the loop.
C8_CaptureOnce ==
  /\ captureCalls <= 1
  /\ (pc \in {"texture", "loop"} \/ frames >= 1) => (captureCalls = 1 /\ ~screenshot.null)
  /\ pc \in {"construct", "flags", "index", "select", "capture"} => captureCalls = 0

C8_Witness == pc = "loop" /\ frames = 2 /\ captureCalls = 1

\* C9: after the resolver has run, the spatial order lists the native
\* indices by ascending x, displays with equal x appear in ascending native
\* order, and the same descriptors always give the same order.
C9_StableDeterministicOrder ==
  (pc # "construct" /\ DisplayCount >= 1) =>
    /\ \A i, j \in 1..DisplayCount :
         i < j =>
           \/ At(monitors, spatialMonitorIndexes[i]).x < At(monitors, spatialMonitorIndexes[j]).x
           \/ /\ At(monitors, spatialMonitorIndexes[i]).x = At(monitors, spatialMonitorIndexes[j]).x
              /\ spatialMonitorIndexes[i] < spatialMonitorIndexes[j]
    /\ \A other \in SortOutcomes(DisplayCount) : other = spatialMonitorIndexes

\* The reverse lookup the resolver is expected to offer: the spatial index
\* holding the native index, or -1.
nativeToSpatial(nativeIndex) ==
  IF \E i \in 1..Len(spatialMonitorIndexes) : spatialMonitorIndexes[i] = nativeIndex
  THEN (CHOOSE i \in 1..Len(spatialMonitorIndexes) :
          /\ spatialMonitorIndexes[i] = nativeIndex
          /\ \A j \in 1..(i - 1) : spatialMonitorIndexes[j] # nativeIndex) - 1
  ELSE -1

\* C10: for every valid spatial index i, the reverse lookup applied to the
\* forward lookup gives i back.
C10_RoundTrip ==
  pc # "construct" =>
    \A i \in 0..(DisplayCount - 1) : nativeToSpatial(getRealMonitorIndex(i)) = i

C10_Witness ==
  /\ pc = "flags"
  /\ DisplayCount = 2
  /\ getRealMonitorIndex(0) = 1
  /\ nativeToSpatial(1) = 0

\* The spatial indices the lookup is asked for: every valid slot, the values
\* just outside the range, and the ends of int.
LookupInputs == (-2..(MaxMonitors + 1)) \cup {-INT_MAX - 1, INT_MAX}

\* C11: the spatial-to-native lookup returns the i-th entry of the spatial
\* order for 0 <= i < number of displays and -1 for every other input, an
\* empty layout included; the step of main() that calls it leaves every
\* field of the resolver as it was.
C11_LookupTotal ==
  /\ [](pc # "construct" =>
          \A i \in LookupInputs :
            getRealMonitorIndex(i) =
              IF 0 <= i /\ i < DisplayCount THEN spatialMonitorIndexes[i + 1] ELSE -1)
  /\ [][pc = "select" => UNCHANGED monitorStateVars]_vars

C11_Witness ==
  /\ pc = "capture"
  /\ DisplayCount = 2
  /\ HasPositionalInteger /\ PositionalInteger >= DisplayCount
  /\ getRealMonitorIndex(PositionalInteger) = -1
  /\ getRealMonitorIndex(-1) = -1
  /\ getRealMonitorIndex(1) = 0

\* The sum of the widths the displays report, by native index.
RECURSIVE WidthsFrom(_)
WidthsFrom(m) == IF m >= DisplayCount THEN 0 ELSE At(monitors, m).w + WidthsFrom(m + 1)

\* C12: after the resolver has run on a non-empty set of displays,
\* totalWidth is the sum of the widths of all displays, each counted once.
C12_TotalWidthIsSum ==
  (pc # "construct" /\ DisplayCount >= 1) => totalWidth = WidthsFrom(0)

C12_Witness ==
  /\ pc = "flags"
  /\ DisplayCount = 3
  /\ spatialMonitorIndexes # << 0, 1, 2 >>
  /\ At(monitors, 0).w # At(monitors, 1).w
  /\ totalWidth = At(monitors, 0).w + At(monitors, 1).w + At(monitors, 2).w

\* The y-position and the height of the display in slot k of the order.
SlotY(k) == At(monitors, spatialMonitorIndexes[k]).y
SlotHeight(k) == At(monitors, spatialMonitorIndexes[k]).h

\* The walk of the claim with the maximum starting at 0: the running total
\* after the slots k.., given the total and the maximum before slot k.
RECURSIVE WalkFromZero(_, _, _)
WalkFromZero(k, total, highest) ==
  IF k > Len(spatialMonitorIndexes) THEN total
  ELSE IF SlotY(k) > highest
       THEN WalkFromZero(k + 1, total + SlotHeight(k), SlotY(k))
       ELSE WalkFromZero(k + 1, Max(total, SlotHeight(k)), highest)

\* The walk of the claim as worded: the maximum is that of the y-positions
\* of the slots before k (the first slot has none before it, and both rules
\* give it the total of its own height).
RECURSIVE WalkFromSeen(_, _)
WalkFromSeen(k, total) ==
  IF k > Len(spatialMonitorIndexes) THEN total
  ELSE IF k = 1 THEN WalkFromSeen(2, SlotHeight(1))
  ELSE IF \A j \in 1..(k - 1) : SlotY(k) > SlotY(j)
       THEN WalkFromSeen(k + 1, total + SlotHeight(k))
       ELSE WalkFromSeen(k + 1, Max(total, SlotHeight(k)))

\* C13 (as worded): totalHeight is the result of the walk in spatial order
\* in which a display whose y is strictly greater than the maximum y seen so
\* far adds its height, and any other display replaces the total by
\* max(total, its height).
C13_HeightWalkFromSeen ==
  (pc # "construct" /\ DisplayCount >= 1) => totalHeight = WalkFromSeen(1, 0)

\* C13 (amended): the same walk, where the maximum starts at 0 before the
\* first display: it is the largest of 0 and the y-positions seen so far.
C13_HeightWalkFromZero ==
  (pc # "construct" /\ DisplayCount >= 1) => totalHeight = WalkFromZero(1, 0, 0)

C13_Witness ==
  /\ pc = "flags"
  /\ DisplayCount = 3
  /\ \E k \in 2..3 : SlotY(k) > 0 /\ \A j \in 1..(k - 1) : SlotY(k) > SlotY(j)
  /\ \E k \in 1..3 : SlotY(k) < 0
  /\ \E k \in 2..3 : SlotY(k) = 0
  /\ totalHeight = WalkFromZero(1, 0, 0)
  /\ totalHeight # WalkFromSeen(1, 0)

\* The three displays of the worked example, by native index.
ThreeDisplays ==
  << Monitor(0, 0, 1920, 1080), Monitor(1920, 0, 2560, 1440),
     Monitor(-1920, 0, 1920, 1080) >>

\* C14: for the three displays of the worked example the resolver produces
\* the spatial order [2, 0, 1] and totalWidth = 6400.
C14_ThreeDisplays ==
  (monitors = ThreeDisplays /\ pc # "construct") =>
    /\ spatialMonitorIndexes = << 2, 0, 1 >>
    /\ totalWidth = 6400

C14_Witness ==
  /\ pc = "flags"
  /\ monitors = ThreeDisplays
  /\ getRealMonitorIndex(0) = 2
  /\ totalWidth = 1920 + 1920 + 2560

\* Pixel k of the captured image, and of the X image it was converted from.
OutputPixel(k) ==
  << screenshot.data[4 * k + 1], screenshot.data[4 * k + 2],
     screenshot.data[4 * k + 3], screenshot.data[4 * k + 4] >>

InputPixel(k) ==
  LET data == XImageData(screenshot.width, screenshot.height)
  IN  [B |-> data[4 * k + 1], G |-> data[4 * k + 2], R |-> data[4 * k + 3],
       X |-> data[4 * k + 4]]

\* C15: after a successful capture of width w and height h the image holds
\* exactly 4*w*h bytes, and pixel k of it is (R, G, B, 255) for the input
\* pixel (B, G, R, X), for every k in [0, w*h); with w*h = 0 it holds none.
C15_BgrxToRgba ==
  (captureCalls >= 1 /\ ~screenshot.null) =>
    /\ screenshot.width = totalWidth /\ screenshot.height = totalHeight
    /\ Len(screenshot.data) = 4 * screenshot.width * screenshot.height
    /\ \A k \in 0..(screenshot.width * screenshot.height - 1) :
         OutputPixel(k) = << InputPixel(k).R, InputPixel(k).G, InputPixel(k).B, 255 >>

C15_Witness ==
  /\ pc = "texture"
  /\ ~screenshot.null
  /\ screenshot.width * screenshot.height >= 3
  /\ InputPixel(0).B # InputPixel(0).R
  /\ InputPixel(1).X # 255
  /\ InputPixel(1) # InputPixel(0)
  /\ OutputPixel(1) = << InputPixel(1).R, InputPixel(1).G, InputPixel(1).B, 255 >>

\* ---- the camera
Abs(a) == IF a >= 0 THEN a ELSE -a

\* The frame loop has run at least one update.
Updated == pc \in {"loop", "exited"} /\ frames >= 1

VisibleWidth == FDiv(Fix(screenWidth), zoom)
VisibleHeight == FDiv(Fix(screenHeight), zoom)
BitmapWidth == Fix(texture.width)
BitmapHeight == Fix(texture.height)

PanWithin(position, visible, bitmap) ==
  IF visible < bitmap
  THEN 0 <= position /\ position <= bitmap - visible
  ELSE position = RoundDiv(bitmap - visible, 2)

\* C17: after every frame update, on each axis: if the visible size
\* (viewport size / zoom) is smaller than the bitmap size then
\* 0 <= pan <= bitmap - visible, and the source rectangle lies inside the
\* bitmap; otherwise pan = (bitmap - visible) / 2.
C17_PanClamped ==
  Updated =>
    /\ PanWithin(pan.x, VisibleWidth, BitmapWidth)
    /\ PanWithin(pan.y, VisibleHeight, BitmapHeight)
    /\ source.x = pan.x /\ source.y = pan.y
    /\ source.width = VisibleWidth /\ source.height = VisibleHeight
    /\ VisibleWidth < BitmapWidth =>
         (0 <= source.x /\ source.x + source.width <= BitmapWidth)
    /\ VisibleHeight < BitmapHeight =>
         (0 <= source.y /\ source.y + source.height <= BitmapHeight)

C17_Witness ==
  /\ pc = "loop" /\ frames >= 2
  /\ VisibleWidth < BitmapWidth
  /\ pan.x = BitmapWidth - VisibleWidth
  /\ targetPan.x > pan.x
  /\ VisibleHeight >= BitmapHeight
  /\ pan.y = RoundDiv(BitmapHeight - VisibleHeight, 2)
  /\ targetPan.y # pan.y

\* The input of the frame about to run.
NextInput == Head(pendingInput)
FrameDue == pc = "loop" /\ ~shouldClose /\ pendingInput # << >>

\* The tolerance of a comparison of two bitmap points computed along
\* different paths, for a pointer offset (in bitmap pixels) of the given
\* size: three steps of the arithmetic, plus its relative precision applied
\* to the offset.
Tolerance(offset) == 3 + (Abs(offset) \div Unit) + 1

Close(a, b, offset) == Abs(a - b) <= Tolerance(offset)

\* The worked example: zoom = 1, pan = (100, 100), pointer (50, 50), one
\* notch up.
ExampleTargetZoom == Clamp(FMul(Fix(1), zoomFactor), minZoom, maxZoom)
ExamplePoint == GetMousePositionOnTexture(FVec(Vec(50, 50)), FVec(Vec(100, 100)), Fix(1))
ExampleTargetPan == ComputeTargetPan(ExamplePoint, Fix(1), ExampleTargetZoom, FVec(Vec(100, 100)))

\* C18: in a frame with a wheel event, the bitmap point under the pointer
\* before the step, p/zoom + pan, equals the point under the pointer once
\* the new targets are applied, p/targetZoom + targetPan, within tolerance;
\* and in the worked example targetZoom = 1.05 and
\* targetPan + (50,50)/1.05 = (150,150).
C18_ZoomAnchor ==
  [][ (FrameDue /\ NextInput.wheel # 0 /\ frames' = frames + 1) =>
        LET p == FVec(NextInput.mouse)
            before == Vec(FDiv(p.x, zoom) + pan.x, FDiv(p.y, zoom) + pan.y)
            after == Vec(FDiv(p.x, targetZoom') + targetPan'.x,
                         FDiv(p.y, targetZoom') + targetPan'.y)
        IN  /\ Close(before.x, after.x, FDiv(p.x, zoom))
            /\ Close(before.y, after.y, FDiv(p.y, zoom))
            /\ mouseOnTexture' = before
            /\ ExampleTargetZoom = zoomFactor
            /\ ExamplePoint = FVec(Vec(150, 150))
            /\ Close(ExampleTargetPan.x + FDiv(Fix(50), ExampleTargetZoom), Fix(150), Fix(50))
            /\ Close(ExampleTargetPan.y + FDiv(Fix(50), ExampleTargetZoom), Fix(150), Fix(50))
    ]_vars

\* A wheel-down frame has just run with the pointer away from the origin and
\* the zoom behind its target: the anchor moved the target pan.
C18_Witness ==
  /\ pc = "loop" /\ frames = 2
  /\ mousePosition = FVec(Vec(1, 2))
  /\ targetZoom < zoom /\ zoom < Fix(1)
  /\ targetPan # pan
  /\ Abs(mouseOnTexture.x - (FDiv(mousePosition.x, targetZoom) + targetPan.x)) <= 5
  /\ mouseOnTexture.x # targetPan.x

\* Positions ClampPan may be handed, inside and outside the bitmap.
ClampProbes ==
  { Vec(a, b) : a \in {-Fix(5), 0, Fix(7)}, b \in {-1, (5 * Unit) \div 2, Fix(9)} }

\* C19: ClampPan is idempotent: with the same zoom and sizes, applying it
\* twice gives the result of applying it once.
C19_ClampIdempotent ==
  Updated =>
    \A position \in ClampProbes \cup {pan, targetPan} :
      LET bitmap == Vec(BitmapWidth, BitmapHeight)
          viewport == Vec(Fix(screenWidth), Fix(screenHeight))
          once == ClampPan(position, zoom, bitmap, viewport)
      IN  ClampPan(once, zoom, bitmap, viewport) = once

C19_Witness ==
  /\ pc = "loop" /\ frames >= 1
  /\ zoom > Fix(1)
  /\ VisibleWidth < BitmapWidth /\ VisibleHeight < BitmapHeight
  /\ LET bitmap == Vec(BitmapWidth, BitmapHeight)
         viewport == Vec(Fix(screenWidth), Fix(screenHeight))
     IN  /\ ClampPan(Vec(Fix(7), Fix(9)), zoom, bitmap, viewport)
              = Vec(BitmapWidth - VisibleWidth, BitmapHeight - VisibleHeight)
         /\ ClampPan(targetPan, zoom, bitmap, viewport) = pan
         /\ ClampPan(pan, zoom, bitmap, viewport) = pan

\* The frame about to run brings no input: no wheel, no button, and no
\* pointer movement during a drag; its time step is nonzero.
IdleFrameDue ==
  /\ FrameDue
  /\ NextInput.wheel = 0 /\ ~NextInput.press /\ ~NextInput.release /\ ~NextInput.esc
  /\ dragging => FVec(NextInput.mouse) = previousMousePosition
  /\ NextInput.dt > 0

\* now lies between before and goal: a move toward goal that does not pass it.
Toward(before, now, goal) ==
  \/ before <= now /\ now <= goal
  \/ goal <= now /\ now <= before

\* C20: in a frame without input and with a nonzero time step, zoom and pan
\* move toward targetZoom and targetPan without passing them, and a frame
\* long enough for full convergence reaches them within the tolerance,
\* whatever reachable targets the earlier frames left.
C20_SmoothingConverges ==
  [][ (IdleFrameDue /\ frames' = frames + 1) =>
        /\ targetZoom' = targetZoom /\ targetPan' = targetPan
        /\ Toward(zoom, zoom', targetZoom)
        /\ Toward(pan.x, pan'.x, targetPan.x)
        /\ Toward(pan.y, pan'.y, targetPan.y)
        /\ Smoothing(NextInput.dt) = Unit =>
             /\ zoom' = targetZoom
             /\ Close(pan'.x, targetPan.x, 0)
             /\ Close(pan'.y, targetPan.y, 0)
    ]_vars

\* The part of C20 about the zoom alone.
C20_ZoomConverges ==
  [][ (IdleFrameDue /\ frames' = frames + 1) =>
        /\ targetZoom' = targetZoom
        /\ Toward(zoom, zoom', targetZoom)
        /\ Smoothing(NextInput.dt) = Unit => zoom' = targetZoom
    ]_vars

\* A frame is about to run, and runs.
FrameRuns == FrameDue /\ frames' = frames + 1

\* C21: a frame with time step 0 has a smoothing factor of exactly 0: zoom
\* is unchanged by it and pan is changed by nothing except the boundary
\* clamp (with the unchanged zoom); the quotients of the frame are defined,
\* zoom and targetZoom being nonzero before and after.
C21_ZeroTimeStep ==
  [][ (FrameRuns /\ NextInput.dt = 0) =>
        /\ Smoothing(NextInput.dt) = 0
        /\ zoom' = zoom
        /\ pan' = ClampPan(pan, zoom, Vec(BitmapWidth, BitmapHeight),
                           Vec(Fix(screenWidth), Fix(screenHeight)))
        /\ zoom # 0 /\ targetZoom' # 0
        /\ source'.width = VisibleWidth /\ source'.height = VisibleHeight
    ]_vars

\* A wheel notch in a frame of no duration has moved the targets and left
\* zoom where it was.
C21_Witness ==
  /\ pc = "loop" /\ frames = 1
  /\ targetZoom < Fix(1)
  /\ zoom = Fix(1)
  /\ pan = Vec(BitmapWidth - VisibleWidth, 0)

\* The pointer movement the drag step of the frame about to run applies:
\* none on the frame of a press, otherwise the movement since the position
\* of the previous frame.
DragDelta ==
  IF NextInput.press THEN Vec(0, 0)
  ELSE Vec(Fix(NextInput.mouse.x) - mousePosition.x,
           Fix(NextInput.mouse.y) - mousePosition.y)

\* C22 (as worded): in every frame in which the drag flag is set and there
\* is no wheel event, targetPan decreases on each axis by (pointer position
\* of this frame - pointer position of the previous frame) / zoom, and the
\* stored previous pointer position becomes this frame's position (frames
\* that have a previous frame).
C22_DragFollowsPointer ==
  [][ (FrameRuns /\ frames >= 1 /\ dragging' /\ NextInput.wheel = 0) =>
        /\ targetPan'.x =
             targetPan.x - RoundDiv((Fix(NextInput.mouse.x) - mousePosition.x) * Unit, zoom)
        /\ targetPan'.y =
             targetPan.y - RoundDiv((Fix(NextInput.mouse.y) - mousePosition.y) * Unit, zoom)
        /\ previousMousePosition' = FVec(NextInput.mouse)
    ]_vars

\* C22 (amended): the same, where on the frame of a press the movement
\* counted is zero (the stored previous position is first set to this
\* frame's position), and in the other frames of a drag the stored previous
\* position is the pointer position of the previous frame.
C22_DragFollowsStoredPointer ==
  [][ (FrameRuns /\ dragging' /\ NextInput.wheel = 0) =>
        /\ targetPan'.x = targetPan.x - RoundDiv(DragDelta.x * Unit, zoom)
        /\ targetPan'.y = targetPan.y - RoundDiv(DragDelta.y * Unit, zoom)
        /\ previousMousePosition' = FVec(NextInput.mouse)
        /\ ~NextInput.press => previousMousePosition = mousePosition
    ]_vars

\* After a wheel-up frame, a press at (0, 0) and a move to (1, 2): the
\* target moved by the pointer movement over the zoom of the third frame.
C22_Witness ==
  /\ pc = "loop" /\ frames = 3
  /\ dragging
  /\ zoom > Fix(1) /\ targetZoom = zoomFactor
  /\ previousMousePosition = FVec(Vec(1, 2))
  /\ mousePosition = FVec(Vec(1, 2))
  /\ targetPan.y < -Fix(1)
  /\ targetPan.x < Fix(4)

\* The zoom step of the claim for a wheel value and a target.
ZoomStep(wheel, target) ==
  IF wheel > 0
  THEN Max(minZoom, Min(RoundDiv(target * ((105 * Unit) \div 100), Unit), maxZoom))
  ELSE IF wheel < 0
       THEN Max(minZoom, Min(RoundDiv(target * Unit, (105 * Unit) \div 100), maxZoom))
       ELSE target

\* C23: on a frame with a nonzero wheel value targetZoom becomes
\* clamp(targetZoom * 1.05, minZoom, maxZoom) when the value is positive and
\* clamp(targetZoom / 1.05, minZoom, maxZoom) when it is negative; with
\* wheel value 0 it is unchanged; targetZoom is in [minZoom, maxZoom] in
\* every reachable state.
C23_ZoomStep ==
  /\ [][FrameRuns => targetZoom' = ZoomStep(NextInput.wheel, targetZoom)]_vars
  /\ [](minZoom <= targetZoom /\ targetZoom <= maxZoom)

\* The opening run and one more notch up: the step was cut at maxZoom.
C23_Witness ==
  /\ pc = "loop"
  /\ frames = ZoomInNotches + 1
  /\ targetZoom = maxZoom
  /\ zoom = maxZoom

\* C24: the rectangles of a frame are computed from the state after
\* smoothing and clamping: sourceRect = (pan.x, pan.y, viewportWidth/zoom,
\* viewportHeight/zoom), destRect = (0, 0, viewportWidth, viewportHeight);
\* destRect is the same in every frame of a session.
C24_Rectangles ==
  /\ [](Updated =>
          /\ source = [x |-> pan.x, y |-> pan.y,
                       width |-> RoundDiv(Fix(screenWidth) * Unit, zoom),
                       height |-> RoundDiv(Fix(screenHeight) * Unit, zoom)]
          /\ dest = [x |-> 0, y |-> 0, width |-> Fix(screenWidth),
                     height |-> Fix(screenHeight)])
  /\ [][FrameRuns => (dest' = dest /\ screenWidth' = screenWidth
                        /\ screenHeight' = screenHeight)]_vars

C24_Witness ==
  /\ pc = "loop" /\ frames >= 2
  /\ zoom # targetZoom /\ zoom > Fix(1)
  /\ pan # targetPan
  /\ source.x = pan.x /\ source.x > 0
  /\ source.width < Fix(screenWidth)
  /\ dest.width = Fix(2) /\ dest.height = Fix(3)

\* C25: once the exit key is seen in a frame, that frame is the last one:
\* no later step runs a frame or changes the camera; the loop is left only
\* after an exit request; shutdown follows the request and releases the
\* texture and the captured image exactly once each.
C25_ExitStopsLoop ==
  /\ [][shouldClose => (frames' = frames /\ UNCHANGED cameraVars)]_vars
  /\ [][(pc = "loop" /\ pc' # "loop") => shouldClose]_vars
  /\ [](textureUnloads <= 1 /\ imageUnloads <= 1)
  /\ [](pc = "loop" => (textureUnloads = 0 /\ imageUnloads = 0))
  /\ []((pc = "exited" /\ frames >= 1) =>
          (shouldClose /\ textureUnloads = 1 /\ imageUnloads = 1 /\ exitStatus = 0))
  /\ (shouldClose ~> (pc = "exited" /\ textureUnloads = 1 /\ imageUnloads = 1))

\* Escape came with a wheel notch in the first frame, with more input
\* pending: the frame ran whole, nothing after it did.
C25_Witness ==
  /\ pc = "exited" /\ shouldClose
  /\ frames = 1
  /\ Len(pendingInput) >= 2
  /\ targetZoom = zoomFactor /\ zoom > Fix(1)
  /\ textureUnloads = 1 /\ imageUnloads = 1

\* C27: after the resolver has run on n >= 1 displays, the spatial order
\* has exactly n entries and every native index 0..n-1 appears in it
\* exactly once; the resolution and position tables have n entries.
C27_OrderIsPermutation ==
  (pc # "construct" /\ DisplayCount >= 1) =>
    /\ Len(spatialMonitorIndexes) = DisplayCount
    /\ \A m \in 0..(DisplayCount - 1) :
         Cardinality({ i \in 1..Len(spatialMonitorIndexes) : spatialMonitorIndexes[i] = m }) = 1
    /\ Len(resolutions) = DisplayCount
    /\ Len(positions) = DisplayCount

C27_Witness ==
  /\ pc = "flags"
  /\ DisplayCount = 3
  /\ spatialMonitorIndexes[1] = 2
  /\ At(monitors, 0).x = At(monitors, 1).x
  /\ Len(positions) = 3

\* C28: every line of the layout listing printed by --help describes one
\* display: the native index, the resolution and the position on the line
\* for spatial slot i are those of the display at spatial index i.
C28_HelpLinesConsistent ==
  (pc = "exited" /\ helpLines # << >>) =>
    /\ Len(helpLines) = DisplayCount
    /\ \A i \in 1..Len(helpLines) :
         LET display == At(monitors, spatialMonitorIndexes[i])
         IN  /\ helpLines[i].index = spatialMonitorIndexes[i]
             /\ helpLines[i].resolution = Vec(display.w, display.h)
             /\ helpLines[i].position = Vec(display.x, display.y)

\* C26: the drag flag follows the button: a press sets it, a release clears
\* it, and it keeps its value otherwise; after a frame with both a press
\* and a release the flag is clear and that frame's pan step did not run;
\* on a press frame the previous pointer is reset to the current one, so the
\* pan delta of that frame is zero.
C26_DragFlag ==
  [][FrameRuns =>
       /\ dragging' = (IF NextInput.release THEN FALSE
                       ELSE IF NextInput.press THEN TRUE ELSE dragging)
       /\ (NextInput.press /\ NextInput.release /\ NextInput.wheel = 0) =>
            (~dragging' /\ targetPan' = targetPan)
       /\ (NextInput.press /\ NextInput.wheel = 0) =>
            (targetPan' = targetPan /\ previousMousePosition' = FVec(NextInput.mouse))]_vars

\* A press and a release came in one frame while the pointer was away from
\* where the previous frame left it.
C26_Witness ==
  /\ pc = "loop" /\ frames = 2
  /\ ~dragging
  /\ mousePosition = FVec(Vec(0, 0))
  /\ previousMousePosition = mousePosition
  /\ pendingInput = << Idle(Vec(1, 2), 16) >>
  /\ targetPan = Vec(Fix(4), 0)
  /\ targetZoom = Fix(1)

\* C29: a frame with the drag flag clear and wheel value 0 leaves targetPan
\* and targetZoom unchanged, wherever the pointer moves; the clamp step
\* changes pan only: targetPan, targetZoom and zoom are what the steps
\* before it made them.
C29_IdleKeepsTargets ==
  [][FrameRuns =>
       /\ (~dragging' /\ NextInput.wheel = 0) =>
            (targetPan' = targetPan /\ targetZoom' = targetZoom)
       /\ targetZoom' = ZoomStep(NextInput.wheel, targetZoom)
       /\ zoom' = zoom + RoundDiv((targetZoom' - zoom) * Smoothing(NextInput.dt), Unit)
       /\ pan' = ClampPan(Vec(pan.x + RoundDiv((targetPan'.x - pan.x) * Smoothing(NextInput.dt), Unit),
                              pan.y + RoundDiv((targetPan'.y - pan.y) * Smoothing(NextInput.dt), Unit)),
                          zoom',
                          Vec(Fix(texture.width), Fix(texture.height)),
                          Vec(Fix(screenWidth), Fix(screenHeight)))]_vars

\* After a zoom out, an idle frame in which the pointer moved: the clamp
\* holds pan away from targetPan, the targets are as the wheel left them.
C29_Witness ==
  /\ pc = "loop" /\ frames = 2
  /\ ~dragging
  /\ mousePosition = FVec(Vec(0, 0))
  /\ mouseOnTexture # Vec(Fix(4), 0)
  /\ targetZoom < Fix(1) /\ zoom = targetZoom
  /\ pan # targetPan

====
